---- MODULE Spec2Model ----
(***************************************************************************)
(* Model of src/main.cxx: a main thread (read_input_words, the word-list   *)
(* printing, lookup_words) and one worker thread (worker_thread) that hand *)
(* words over through the single slot s_word, guarded by s_mutex and       *)
(* s_conditionVariable.                                                    *)
(*                                                                         *)
(* Every statement that touches shared state is one action, so that all    *)
(* interleavings of the two threads between lock and unlock are explored.  *)
(* Standard input is a finite sequence of tokens, each of which fits       *)
(* lineBuf (at most 31 characters); scanf("%s") never yields an empty      *)
(* token.  The empty string "" is the default-constructed Word.            *)
(***************************************************************************)
EXTENDS Integers, Sequences, FiniteSets, TLC

\* ---- bounds -------------------------------------------------------------
MaxInput == 6                      \* longest standard input, in tokens
MaxFairInput == 4                  \* the same, for the runs checked under fairness

\* ---- vocabulary ---------------------------------------------------------
Sentinel == "end"                  \* the literal compared by strcmp
Empty == ""                        \* Word().data
Tokens == {"x", "y", Sentinel}     \* what scanf("%s") can deliver

VARIABLES
  input,        \* the tokens on standard input (fixed for a run)
  inPos,        \* how many of them scanf has consumed
  mainPc,       \* position of the main thread
  lineBuf,      \* the main thread's lineBuf (read_input_words / lookup_words)
  mEnd,         \* read_input_words' local endEncountered
  workerPc,     \* position of the worker thread
  w,            \* worker_thread's local Word w
  wEnd,         \* worker_thread's local endEncountered
  s_word,       \* the shared slot
  s_mutex,      \* owner of s_mutex: "free", "main" or "worker"
  s_wordsMap,   \* the word list, a function key -> count
  s_totalFound, \* number of successful lookups
  joined,       \* worker.join() has returned
  puts,         \* history: tokens stored into s_word, in order
  takes,        \* history: non-empty tokens the worker swapped out, in order
  lookupLog     \* history: what lookup_words printed, <<query, found, count>>

vars == <<input, inPos, mainPc, lineBuf, mEnd, workerPc, w, wEnd, s_word,
          s_mutex, s_wordsMap, s_totalFound, joined, puts, takes, lookupLog>>

mainVars == <<lineBuf, mEnd, joined, puts, lookupLog, s_totalFound, inPos>>
workerVars == <<w, wEnd, takes>>

\* ---- helpers modelling library calls ------------------------------------
\* All sequences over S of length at most n.
SeqUpTo(S, n) == UNION {[1..k -> S] : k \in 0..n}

\* std::strcmp(s, "end") == 0
IsEnd(s) == s = Sentinel

\* std::string::empty()
IsEmptyWord(s) == s = Empty

\* a wait whose predicate never holds the main thread back
WaitPredicate_always(slot) == TRUE

\* the wait predicate  []{ return s_word.data.empty(); }
WaitPredicate(slot) == IsEmptyWord(slot)

\* a notify_one that wakes nobody
notify_one_lost(pc) == pc

\* s_conditionVariable.notify_one(): wakes the main thread if it is blocked
\* in wait (the worker never waits on the condition variable).
notify_one(pc) == IF pc = "cv_blocked" THEN "cv_relock" ELSE pc

\* an operator[] that inserts a wordCount already counting 1
MapIndex_one(m, k) == IF k \in DOMAIN m THEN m ELSE m @@ (k :> 1)

\* std::map::operator[]: inserts a value-initialised wordCount (count 0)
\* when the key is absent, and leaves the map alone otherwise.
MapIndex(m, k) == IF k \in DOMAIN m THEN m ELSE m @@ (k :> 0)

\* an increment that counts every occurrence twice
MapIncr_twice(m, k) == [m EXCEPT ![k] = @ + 2]

\* got.count += 1
MapIncr(m, k) == [m EXCEPT ![k] = @ + 1]

\* std::map::find: TRUE iff result != s_wordsMap.end()
MapFind(m, k) == k \in DOMAIN m

\* the empty std::map
EmptyMap == [k \in {} |-> 0]

\* ---- initial state ------------------------------------------------------
Init ==
  /\ input \in SeqUpTo(Tokens, MaxInput)
  /\ inPos = 0
  /\ mainPc = "main"
  /\ lineBuf = Empty
  /\ mEnd = FALSE
  /\ workerPc = "not_started"
  /\ w = Empty
  /\ wEnd = FALSE
  /\ s_word = Empty
  /\ s_mutex = "free"
  /\ s_wordsMap = EmptyMap
  /\ s_totalFound = 0
  /\ joined = FALSE
  /\ puts = <<>>
  /\ takes = <<>>
  /\ lookupLog = <<>>

\* The process is alive: std::terminate has not been called and main has
\* not returned.
Alive == mainPc \notin {"terminated", "exit"}

\* ======================= worker_thread ===================================
\* while (!endEncountered) { Word w; ...
worker_while ==
  /\ Alive
  /\ workerPc = "while"
  /\ IF wEnd THEN workerPc' = "done" /\ w' = w
             ELSE workerPc' = "lock" /\ w' = Empty
  /\ UNCHANGED <<mainPc, wEnd, takes, s_word, s_mutex, s_wordsMap, input>>
  /\ UNCHANGED mainVars

\* a worker that enters its block without waiting for s_mutex
worker_lock_unguarded ==
  /\ Alive
  /\ workerPc = "lock"
  /\ s_mutex' = "worker"
  /\ workerPc' = "swap"
  /\ UNCHANGED <<mainPc, s_word, s_wordsMap, input>>
  /\ UNCHANGED mainVars
  /\ UNCHANGED workerVars

\* std::lock_guard<std::mutex> lock(s_mutex);
worker_lock ==
  /\ Alive
  /\ workerPc = "lock"
  /\ s_mutex = "free"
  /\ s_mutex' = "worker"
  /\ workerPc' = "swap"
  /\ UNCHANGED <<mainPc, s_word, s_wordsMap, input>>
  /\ UNCHANGED mainVars
  /\ UNCHANGED workerVars

\* std::swap(w, s_word);
worker_swap ==
  /\ Alive
  /\ workerPc = "swap"
  /\ w' = s_word
  /\ s_word' = w
  /\ takes' = IF IsEmptyWord(s_word) THEN takes ELSE Append(takes, s_word)
  /\ workerPc' = "notify"
  /\ UNCHANGED <<mainPc, wEnd, s_mutex, s_wordsMap, input>>
  /\ UNCHANGED mainVars

\* s_conditionVariable.notify_one();
worker_notify ==
  /\ Alive
  /\ workerPc = "notify"
  /\ mainPc' = notify_one(mainPc)
  /\ workerPc' = "unlock"
  /\ UNCHANGED <<s_word, s_mutex, s_wordsMap, input>>
  /\ UNCHANGED mainVars
  /\ UNCHANGED workerVars

\* end of the scoped block: ~lock_guard releases s_mutex
worker_unlock ==
  /\ Alive
  /\ workerPc = "unlock"
  /\ s_mutex' = "free"
  /\ workerPc' = "empty_test"
  /\ UNCHANGED <<mainPc, s_word, s_wordsMap, input>>
  /\ UNCHANGED mainVars
  /\ UNCHANGED workerVars

\* a worker whose emptiness test is inverted
worker_empty_test_inverted ==
  /\ Alive
  /\ workerPc = "empty_test"
  /\ workerPc' = IF IsEmptyWord(w) THEN "strcmp" ELSE "while"
  /\ UNCHANGED <<mainPc, s_word, s_mutex, s_wordsMap, input>>
  /\ UNCHANGED mainVars
  /\ UNCHANGED workerVars

\* a worker that processes w without testing it for emptiness
worker_empty_test_skip ==
  /\ Alive
  /\ workerPc = "empty_test"
  /\ workerPc' = "strcmp"
  /\ UNCHANGED <<mainPc, s_word, s_mutex, s_wordsMap, input>>
  /\ UNCHANGED mainVars
  /\ UNCHANGED workerVars

\* if (!w.data.empty())
worker_empty_test ==
  /\ Alive
  /\ workerPc = "empty_test"
  /\ workerPc' = IF ~IsEmptyWord(w) THEN "strcmp" ELSE "while"
  /\ UNCHANGED <<mainPc, s_word, s_mutex, s_wordsMap, input>>
  /\ UNCHANGED mainVars
  /\ UNCHANGED workerVars

\* a worker whose comparison with "end" is inverted
worker_strcmp_inverted ==
  /\ Alive
  /\ workerPc = "strcmp"
  /\ wEnd' = ~IsEnd(w)
  /\ workerPc' = IF IsEnd(w) THEN "index" ELSE "while"
  /\ UNCHANGED <<mainPc, w, takes, s_word, s_mutex, s_wordsMap, input>>
  /\ UNCHANGED mainVars

\* a worker that counts the word before it looks at endEncountered
worker_strcmp_count_all ==
  /\ Alive
  /\ workerPc = "strcmp"
  /\ wEnd' = IsEnd(w)
  /\ workerPc' = "index"
  /\ UNCHANGED <<mainPc, w, takes, s_word, s_mutex, s_wordsMap, input>>
  /\ UNCHANGED mainVars

\* endEncountered = std::strcmp(w.data.c_str(), "end") == 0;
\* if (!endEncountered) ...
worker_strcmp ==
  /\ Alive
  /\ workerPc = "strcmp"
  /\ wEnd' = IsEnd(w)
  /\ workerPc' = IF ~IsEnd(w) THEN "index" ELSE "while"
  /\ UNCHANGED <<mainPc, w, takes, s_word, s_mutex, s_wordsMap, input>>
  /\ UNCHANGED mainVars

\* auto& got = s_wordsMap[w.data];
worker_index ==
  /\ Alive
  /\ workerPc = "index"
  /\ s_wordsMap' = MapIndex(s_wordsMap, w)
  /\ workerPc' = "incr"
  /\ UNCHANGED <<mainPc, s_word, s_mutex, input>>
  /\ UNCHANGED mainVars
  /\ UNCHANGED workerVars

\* got.count += 1;
worker_incr ==
  /\ Alive
  /\ workerPc = "incr"
  /\ s_wordsMap' = MapIncr(s_wordsMap, w)
  /\ workerPc' = "while"
  /\ UNCHANGED <<mainPc, s_word, s_mutex, input>>
  /\ UNCHANGED mainVars
  /\ UNCHANGED workerVars

worker_thread ==
  \/ worker_while \/ worker_lock \/ worker_swap \/ worker_notify
  \/ worker_unlock \/ worker_empty_test \/ worker_strcmp
  \/ worker_index \/ worker_incr

\* ======================= main thread =====================================
\* a destructor that lets a joinable thread go (as after detach())
thread_dtor_detached(isJoined, cont) == cont

\* ~std::thread: destroying a joinable thread calls std::terminate, which
\* ends the process; otherwise control continues at cont.
thread_dtor(isJoined, cont) == IF isJoined THEN cont ELSE "terminated"

\* main() calls read_input_words(); std::thread worker(worker_thread);
riw_spawn ==
  /\ mainPc = "main"
  /\ workerPc = "not_started"
  /\ workerPc' = "while"
  /\ mainPc' = "riw_while"
  /\ UNCHANGED <<s_word, s_mutex, s_wordsMap, input>>
  /\ UNCHANGED mainVars
  /\ UNCHANGED workerVars

\* a read loop that does not look at endEncountered
riw_while_ignore_end ==
  /\ mainPc = "riw_while"
  /\ mainPc' = "scanf"
  /\ UNCHANGED <<workerPc, s_word, s_mutex, s_wordsMap, input>>
  /\ UNCHANGED mainVars
  /\ UNCHANGED workerVars

\* while (!endEncountered)
riw_while ==
  /\ mainPc = "riw_while"
  /\ mainPc' = IF mEnd THEN "join" ELSE "scanf"
  /\ UNCHANGED <<workerPc, s_word, s_mutex, s_wordsMap, input>>
  /\ UNCHANGED mainVars
  /\ UNCHANGED workerVars

\* if (std::scanf("%s", lineBuf) == EOF) return;
\* endEncountered = std::strcmp(lineBuf, "end") == 0;
riw_scanf ==
  /\ mainPc = "scanf"
  /\ IF inPos = Len(input)
       THEN /\ mainPc' = "return_eof"
            /\ UNCHANGED <<inPos, lineBuf, mEnd>>
       ELSE /\ inPos' = inPos + 1
            /\ lineBuf' = input[inPos + 1]
            /\ mEnd' = IsEnd(input[inPos + 1])
            /\ mainPc' = "lock1"
  /\ UNCHANGED <<workerPc, s_word, s_mutex, s_wordsMap, input>>
  /\ UNCHANGED <<joined, puts, lookupLog, s_totalFound>>
  /\ UNCHANGED workerVars

\* the early return leaves the scope of the std::thread object
riw_return_eof ==
  /\ mainPc = "return_eof"
  /\ mainPc' = thread_dtor(joined, "print")
  /\ UNCHANGED <<workerPc, s_word, s_mutex, s_wordsMap, input>>
  /\ UNCHANGED mainVars
  /\ UNCHANGED workerVars

\* std::lock_guard<std::mutex> lock(s_mutex);   (line 90)
riw_lock1 ==
  /\ mainPc = "lock1"
  /\ s_mutex = "free"
  /\ s_mutex' = "main"
  /\ mainPc' = "store"
  /\ UNCHANGED <<workerPc, s_word, s_wordsMap, input>>
  /\ UNCHANGED mainVars
  /\ UNCHANGED workerVars

\* s_word = Word(lineBuf);
riw_store ==
  /\ mainPc = "store"
  /\ s_word' = lineBuf
  /\ puts' = Append(puts, lineBuf)
  /\ mainPc' = "unlock1"
  /\ UNCHANGED <<workerPc, s_mutex, s_wordsMap, input>>
  /\ UNCHANGED <<lineBuf, mEnd, joined, lookupLog, s_totalFound, inPos>>
  /\ UNCHANGED workerVars

\* end of the scoped block: ~lock_guard releases s_mutex
riw_unlock1 ==
  /\ mainPc = "unlock1"
  /\ s_mutex' = "free"
  /\ mainPc' = "notify"
  /\ UNCHANGED <<workerPc, s_word, s_wordsMap, input>>
  /\ UNCHANGED mainVars
  /\ UNCHANGED workerVars

\* s_conditionVariable.notify_one();  the worker never waits on the
\* condition variable, so nobody is woken.
riw_notify ==
  /\ mainPc = "notify"
  /\ mainPc' = "lock2"
  /\ UNCHANGED <<workerPc, s_word, s_mutex, s_wordsMap, input>>
  /\ UNCHANGED mainVars
  /\ UNCHANGED workerVars

\* std::unique_lock<std::mutex> ulock(s_mutex);   (line 98)
riw_lock2 ==
  /\ mainPc = "lock2"
  /\ s_mutex = "free"
  /\ s_mutex' = "main"
  /\ mainPc' = "wait"
  /\ UNCHANGED <<workerPc, s_word, s_wordsMap, input>>
  /\ UNCHANGED mainVars
  /\ UNCHANGED workerVars

\* a wait whose predicate has the wrong polarity
riw_wait_negated ==
  /\ mainPc = "wait"
  /\ IF ~WaitPredicate(s_word)
       THEN mainPc' = "unlock2" /\ s_mutex' = s_mutex
       ELSE mainPc' = "cv_blocked" /\ s_mutex' = "free"
  /\ UNCHANGED <<workerPc, s_word, s_wordsMap, input>>
  /\ UNCHANGED mainVars
  /\ UNCHANGED workerVars

\* s_conditionVariable.wait(ulock, pred):  while (!pred()) wait(ulock);
\* wait(ulock) atomically releases s_mutex and blocks.
riw_wait ==
  /\ mainPc = "wait"
  /\ IF WaitPredicate(s_word)
       THEN mainPc' = "unlock2" /\ s_mutex' = s_mutex
       ELSE mainPc' = "cv_blocked" /\ s_mutex' = "free"
  /\ UNCHANGED <<workerPc, s_word, s_wordsMap, input>>
  /\ UNCHANGED mainVars
  /\ UNCHANGED workerVars

\* a spurious wakeup of the blocked wait
riw_spurious_wakeup ==
  /\ mainPc = "cv_blocked"
  /\ mainPc' = "cv_relock"
  /\ UNCHANGED <<workerPc, s_word, s_mutex, s_wordsMap, input>>
  /\ UNCHANGED mainVars
  /\ UNCHANGED workerVars

\* a bare wait: a woken wait returns without re-evaluating the predicate
riw_relock_bare ==
  /\ mainPc = "cv_relock"
  /\ s_mutex = "free"
  /\ s_mutex' = "main"
  /\ mainPc' = "unlock2"
  /\ UNCHANGED <<workerPc, s_word, s_wordsMap, input>>
  /\ UNCHANGED mainVars
  /\ UNCHANGED workerVars

\* a woken wait re-acquires s_mutex before it re-evaluates the predicate
riw_relock ==
  /\ mainPc = "cv_relock"
  /\ s_mutex = "free"
  /\ s_mutex' = "main"
  /\ mainPc' = "wait"
  /\ UNCHANGED <<workerPc, s_word, s_wordsMap, input>>
  /\ UNCHANGED mainVars
  /\ UNCHANGED workerVars

\* end of the scoped block: ~unique_lock releases s_mutex
riw_unlock2 ==
  /\ mainPc = "unlock2"
  /\ s_mutex' = "free"
  /\ mainPc' = "riw_while"
  /\ UNCHANGED <<workerPc, s_word, s_wordsMap, input>>
  /\ UNCHANGED mainVars
  /\ UNCHANGED workerVars

\* a join that does not wait for the worker
JoinReady_nowait(pc) == TRUE

\* worker.join() returns once worker_thread has returned
JoinReady(pc) == pc = "done"

\* worker.join(); then read_input_words returns (the std::thread object is
\* destroyed, no longer joinable)
riw_join ==
  /\ mainPc = "join"
  /\ JoinReady(workerPc)
  /\ joined' = TRUE
  /\ mainPc' = thread_dtor(TRUE, "print")
  /\ UNCHANGED <<workerPc, s_word, s_mutex, s_wordsMap, input>>
  /\ UNCHANGED <<lineBuf, mEnd, puts, lookupLog, s_totalFound, inPos>>
  /\ UNCHANGED workerVars

read_input_words ==
  \/ riw_spawn \/ riw_while \/ riw_scanf \/ riw_return_eof \/ riw_lock1
  \/ riw_store \/ riw_unlock1 \/ riw_notify \/ riw_lock2 \/ riw_wait
  \/ riw_relock \/ riw_unlock2 \/ riw_join

\* main(): prints "=== Word list:" and iterates s_wordsMap, then calls
\* lookup_words()
main_print ==
  /\ mainPc = "print"
  /\ mainPc' = "lk_scanf"
  /\ UNCHANGED <<workerPc, s_word, s_mutex, s_wordsMap, input>>
  /\ UNCHANGED mainVars
  /\ UNCHANGED workerVars

\* a lookup loop that also stops when the word "end" is entered
lk_scanf_stop_on_end ==
  /\ mainPc = "lk_scanf"
  /\ IF inPos = Len(input)
       THEN /\ mainPc' = "print_total"
            /\ UNCHANGED <<inPos, lineBuf>>
       ELSE /\ inPos' = inPos + 1
            /\ lineBuf' = input[inPos + 1]
            /\ mainPc' = IF IsEnd(input[inPos + 1]) THEN "print_total"
                                                    ELSE "lk_find"
  /\ UNCHANGED <<workerPc, s_word, s_mutex, s_wordsMap, input>>
  /\ UNCHANGED <<mEnd, joined, puts, lookupLog, s_totalFound>>
  /\ UNCHANGED workerVars

\* lookup_words: found = false; if (std::scanf("%s", lineBuf) == EOF) return;
lk_scanf ==
  /\ mainPc = "lk_scanf"
  /\ IF inPos = Len(input)
       THEN /\ mainPc' = "print_total"
            /\ UNCHANGED <<inPos, lineBuf>>
       ELSE /\ inPos' = inPos + 1
            /\ lineBuf' = input[inPos + 1]
            /\ mainPc' = "lk_find"
  /\ UNCHANGED <<workerPc, s_word, s_mutex, s_wordsMap, input>>
  /\ UNCHANGED <<mEnd, joined, puts, lookupLog, s_totalFound>>
  /\ UNCHANGED workerVars

\* a report that never prints the stored count
LookupReport_nocount(m, q) == <<q, MapFind(m, q), 0>>

\* what lookup_words prints for query q against map m
LookupReport(m, q) ==
  IF MapFind(m, q) THEN <<q, TRUE, m[q]>> ELSE <<q, FALSE, 0>>

\* a counter incremented on every query, hit or miss
TotalAfter_always(total, m, q) == total + 1

\* the value of s_totalFound after the query q against map m
TotalAfter(total, m, q) == IF MapFind(m, q) THEN total + 1 ELSE total

\* a lookup through operator[], which inserts the key on a miss
lk_find_index ==
  /\ mainPc = "lk_find"
  /\ lookupLog' = Append(lookupLog, LookupReport(s_wordsMap, lineBuf))
  /\ s_totalFound' = TotalAfter(s_totalFound, s_wordsMap, lineBuf)
  /\ s_wordsMap' = MapIndex(s_wordsMap, lineBuf)
  /\ mainPc' = "lk_scanf"
  /\ UNCHANGED <<workerPc, s_word, s_mutex, input>>
  /\ UNCHANGED <<lineBuf, mEnd, joined, puts, inPos>>
  /\ UNCHANGED workerVars

\* Word w(lineBuf); auto result = s_wordsMap.find(w.data); report;
\* ++s_totalFound on a hit
lk_find ==
  /\ mainPc = "lk_find"
  /\ lookupLog' = Append(lookupLog, LookupReport(s_wordsMap, lineBuf))
  /\ s_totalFound' = TotalAfter(s_totalFound, s_wordsMap, lineBuf)
  /\ mainPc' = "lk_scanf"
  /\ UNCHANGED <<workerPc, s_word, s_mutex, s_wordsMap, input>>
  /\ UNCHANGED <<lineBuf, mEnd, joined, puts, inPos>>
  /\ UNCHANGED workerVars

lookup_words == lk_scanf \/ lk_find

\* main(): printf("=== Total words found: ..."); return 0;
main_return ==
  /\ mainPc = "print_total"
  /\ mainPc' = "exit"
  /\ UNCHANGED <<workerPc, s_word, s_mutex, s_wordsMap, input>>
  /\ UNCHANGED mainVars
  /\ UNCHANGED workerVars

main == read_input_words \/ main_print \/ lookup_words \/ main_return

\* ======================= specifications ==================================
Next == main \/ riw_spurious_wakeup \/ worker_thread

Spec == Init /\ [][Next]_vars

\* Fair scheduling: every thread that can run eventually runs, and a thread
\* that repeatedly finds s_mutex free eventually acquires it.  Spurious
\* wakeups are possible but never promised.
Fairness == SF_vars(main) /\ SF_vars(worker_thread)

FairInit == Init /\ Len(input) <= MaxFairInput

FairSpec == FairInit /\ [][Next]_vars /\ Fairness

\* ======================= reference definitions ===========================
\* Position of the first "end" in s, 0 when there is none.
FirstEnd(s) ==
  IF \E i \in 1..Len(s) : s[i] = Sentinel
    THEN CHOOSE i \in 1..Len(s) :
           s[i] = Sentinel /\ \A j \in 1..(i - 1) : s[j] # Sentinel
    ELSE 0

HasEnd(s) == FirstEnd(s) > 0

\* The tokens before the first "end" (all of s when there is none).
Ingested(s) == IF HasEnd(s) THEN SubSeq(s, 1, FirstEnd(s) - 1) ELSE s

\* The tokens after the first "end": the lookup queries.
Queries(s) == IF HasEnd(s) THEN SubSeq(s, FirstEnd(s) + 1, Len(s)) ELSE <<>>

\* Number of occurrences of q in s.
Occ(q, s) == Cardinality({i \in 1..Len(s) : s[i] = q})

Range(s) == {s[i] : i \in 1..Len(s)}

\* The frequency table of a token sequence.
RefTable(s) == [k \in Range(s) |-> Occ(k, s)]

\* Positions of the main thread after read_input_words has returned to main.
AfterIngestion == {"print", "lk_scanf", "lk_find", "print_total", "exit"}

\* ======================= claims ==========================================

\* C1: the non-empty tokens the worker extracts are exactly the tokens the
\* main thread stored, in the same order: the stores follow standard input,
\* the takes are a prefix of the stores that lags by at most the one token
\* still in the slot, and once the worker has been joined the takes are the
\* input up to and including the first "end".
C1_OrderedHandoff ==
  /\ Len(puts) <= Len(input)
  /\ puts = SubSeq(input, 1, Len(puts))
  /\ Len(takes) <= Len(puts)
  /\ takes = SubSeq(puts, 1, Len(takes))
  /\ Len(puts) - Len(takes) <= 1
  /\ (workerPc = "done" => takes = puts)
  /\ (joined => takes = SubSeq(input, 1, FirstEnd(input)))

C1_Witness ==
  /\ joined
  /\ Len(takes) >= 3
  /\ takes[1] # takes[2]

\* C2: whenever the main thread is about to execute s_word = Word(lineBuf),
\* the slot is empty: no unconsumed token is ever overwritten.
C2_StoreOnlyIntoEmptySlot == mainPc = "store" => IsEmptyWord(s_word)

C2_Witness == mainPc = "store" /\ Len(takes) >= 2 /\ IsEmptyWord(s_word)

\* C3: under fair scheduling, an input that contains "end" leads to the
\* worker having left its loop and the main thread having returned from
\* worker.join() and from read_input_words.
C3_SentinelTerminates ==
  HasEnd(input) ~> (joined /\ workerPc = "done" /\ mainPc \in AfterIngestion)

C3_Witness == joined /\ FirstEnd(input) = 1 /\ mainPc = "print"

\* C4: when standard input ends before "end" was read, the main thread has
\* joined the terminated worker by the time it has left read_input_words.
C4_EofStillJoinsWorker ==
  (~HasEnd(input) /\ mainPc \in AfterIngestion \cup {"terminated"})
    => (joined /\ workerPc = "done")

\* C5: when read_input_words has returned, s_wordsMap has one key per
\* distinct token before the first "end", with its number of occurrences.
C5_AggregationResult == joined => s_wordsMap = RefTable(Ingested(input))

C5_Witness ==
  /\ joined
  /\ SubSeq(input, 1, FirstEnd(input)) = <<"x", "y", "x", "end">>
  /\ s_wordsMap = ("x" :> 2) @@ ("y" :> 1)

\* C6: "end" is never a key of s_wordsMap.
C6_SentinelNeverCounted == Sentinel \notin DOMAIN s_wordsMap

C6_Witness == workerPc = "done" /\ wEnd /\ DOMAIN s_wordsMap = {"x", "y"}

\* C7 as stated: every swap the worker has performed found a token in the
\* slot, so the worker never holds an empty w after the swap.
C7_NeverSwapsEmptySlot ==
  workerPc \in {"notify", "unlock", "empty_test"} => ~IsEmptyWord(w)

\* C7 amended: the worker polls; the token it goes on to compare with "end"
\* and to count is never empty.
C7_ProcessedTokenNonEmpty ==
  workerPc \in {"strcmp", "index", "incr"} => ~IsEmptyWord(w)

C7_Witness == workerPc = "strcmp" /\ ~IsEmptyWord(w) /\ Len(takes) >= 2

\* C8: while the main thread prints the word list or runs lookup_words the
\* worker has terminated and been joined, and s_wordsMap no longer changes.
C8_PhaseSeparation ==
  /\ [](mainPc \in AfterIngestion => (joined /\ workerPc = "done"))
  /\ [][(mainPc \in AfterIngestion => UNCHANGED s_wordsMap)]_vars

C8_Witness == mainPc = "lk_find" /\ workerPc = "done" /\ s_wordsMap # EmptyMap

\* C9: the i-th lookup reports success with count c exactly when the query
\* occurred c >= 1 times before the first "end", and not-found otherwise.
C9_LookupResult ==
  /\ Len(lookupLog) <= Len(Queries(input))
  /\ \A i \in 1..Len(lookupLog) :
       LET q == Queries(input)[i]
           c == Occ(q, Ingested(input))
       IN  lookupLog[i] = IF c >= 1 THEN <<q, TRUE, c>> ELSE <<q, FALSE, 0>>

C9_Witness ==
  /\ input = <<"x", "x", "end", "x", "end", "y">>
  /\ lookupLog = << <<"x", TRUE, 2>>, <<"end", FALSE, 0>>, <<"y", FALSE, 0>> >>

\* C10: s_totalFound equals the number of queries answered so far that were
\* hits, and it only ever changes by +1 in lookup_words.
C10_TotalFound ==
  /\ [](s_totalFound =
          Cardinality({i \in 1..Len(lookupLog) :
                         Occ(Queries(input)[i], Ingested(input)) >= 1}))
  /\ [][(s_totalFound' # s_totalFound =>
           (mainPc = "lk_find" /\ s_totalFound' = s_totalFound + 1))]_vars

C10_Witness ==
  /\ input = <<"x", "x", "end", "x", "y", "x">>
  /\ Len(lookupLog) = 3
  /\ s_totalFound = 2

\* Positions of the main thread inside lookup_words.
InLookup == {"lk_scanf", "lk_find"}

\* C11: lookup_words never changes s_wordsMap, on a hit or on a miss, and
\* two lookups of the same word print the same report.
C11_LookupLeavesMapUnchanged ==
  /\ [][(mainPc \in InLookup => s_wordsMap' = s_wordsMap)]_vars
  /\ [](mainPc \in InLookup \cup {"print_total", "exit"} =>
          s_wordsMap = RefTable(Ingested(input)))
  /\ [](\A i, j \in 1..Len(lookupLog) :
          lookupLog[i][1] = lookupLog[j][1] => lookupLog[i] = lookupLog[j])

C11_Witness ==
  /\ mainPc = "print_total"
  /\ Len(lookupLog) = 4
  /\ lookupLog[1] = <<"y", FALSE, 0>>
  /\ lookupLog[2] = <<"x", TRUE, 1>>
  /\ lookupLog[3] = lookupLog[1]
  /\ lookupLog[4] = lookupLog[2]

C13_LookupStopsOnEnd ==
  \A i, j \in 1..Len(lookupLog) : i < j => lookupLog[i][1] # Sentinel

\* The worker has extracted the token "end".
TookEnd == Len(takes) > 0 /\ takes[Len(takes)] = Sentinel

\* C14: the worker leaves its loop only after having extracted "end" (never
\* after an ordinary word or an empty slot value), and once it has extracted
\* "end" it extracts nothing more and changes s_wordsMap no more.
C14_WorkerExitsOnlyOnEnd ==
  /\ [](workerPc = "done" => (IsEnd(w) /\ wEnd /\ TookEnd))
  /\ [](wEnd => (IsEnd(w) /\ TookEnd))
  /\ [][(TookEnd =>
           (/\ UNCHANGED <<takes, s_wordsMap, s_word, w>>
            /\ workerPc' \notin {"lock", "swap", "index", "incr"}))]_vars

C14_Witness ==
  /\ workerPc = "done"
  /\ takes = <<"x", "y", "end">>
  /\ mainPc = "join"

\* The worker holds the result of a swap it has not yet tested.
AfterSwap == {"notify", "unlock", "empty_test"}

\* C15: when the worker has extracted an empty token, s_wordsMap and
\* endEncountered stay as they are and the worker goes back to the head of
\* its loop, which it enters again.
C15_EmptyTokenIgnored ==
  /\ [][((workerPc \in AfterSwap /\ IsEmptyWord(w)) =>
           (/\ UNCHANGED <<s_wordsMap, wEnd>>
            /\ workerPc' \in AfterSwap \cup {"while"}))]_vars
  /\ []((workerPc \in AfterSwap \cup {"while"} /\ IsEmptyWord(w)) => ~wEnd)
  /\ [][((workerPc = "while" /\ IsEmptyWord(w) /\ workerPc' # workerPc) =>
           workerPc' = "lock")]_vars

C15_Witness ==
  /\ workerPc = "while"
  /\ IsEmptyWord(w)
  /\ s_wordsMap = ("x" :> 1)
  /\ ~IsEmptyWord(s_word)

\* C16: the wait at line 101 is left only with an empty slot; a wait that
\* is woken while the slot is occupied re-acquires the mutex, finds the
\* predicate false and blocks again, so the main thread is never past the
\* wait with an unconsumed token in the slot.
C16_SpuriousWakeupHarmless ==
  /\ [][((mainPc = "wait" /\ mainPc' = "unlock2") => IsEmptyWord(s_word))]_vars
  /\ [][((mainPc = "wait" /\ ~IsEmptyWord(s_word) /\ mainPc' # mainPc) =>
           (mainPc' = "cv_blocked" /\ s_mutex' = "free"))]_vars
  /\ [][((mainPc = "cv_relock" /\ mainPc' # mainPc) => mainPc' = "wait")]_vars
  /\ [](mainPc \in {"unlock2", "riw_while", "scanf", "lock1", "join"} =>
          IsEmptyWord(s_word))

\* the main thread has been woken while the token is still in the slot,
\* which only a spurious wakeup does
C16_Witness ==
  /\ mainPc = "cv_relock"
  /\ ~IsEmptyWord(s_word)
  /\ Len(takes) >= 1

\* C17: "end" is the last token the main thread ever stores: once it has
\* been stored, scanf is not called again during ingestion and nothing more
\* is stored, so no token behind the first "end" reaches s_word or
\* s_wordsMap.
C17_NothingAfterSentinel ==
  /\ [](\A i \in 1..(Len(puts) - 1) : puts[i] # Sentinel)
  /\ [](HasEnd(input) => Len(puts) <= FirstEnd(input))
  /\ []((HasEnd(input) /\ mainPc \notin AfterIngestion) =>
          inPos <= FirstEnd(input))
  /\ [](\A k \in DOMAIN s_wordsMap : s_wordsMap[k] <= Occ(k, Ingested(input)))
  /\ [][((Len(puts) > 0 /\ puts[Len(puts)] = Sentinel) =>
           (UNCHANGED <<puts, inPos>> \/ mainPc \in AfterIngestion))]_vars

C17_Witness ==
  /\ mainPc = "print"
  /\ input = <<"x", "end", "y", "x">>
  /\ puts = <<"x", "end">>
  /\ s_wordsMap = ("x" :> 1)

\* Positions at which a thread is between lock and unlock of s_mutex.
MainLocked == {"store", "unlock1", "wait", "unlock2"}
WorkerLocked == {"swap", "notify", "unlock"}

\* C18: the store (line 91), the wait predicate (line 101) and the swap
\* (line 49) run with s_mutex held by the thread that runs them, and the
\* two threads are never both between lock and unlock.
C18_SlotAccessUnderMutex ==
  /\ [](mainPc \in MainLocked => s_mutex = "main")
  /\ [](workerPc \in WorkerLocked => s_mutex = "worker")
  /\ [](~(mainPc \in MainLocked /\ workerPc \in WorkerLocked))
  /\ [][(s_word' # s_word =>
           \/ (mainPc = "store" /\ s_mutex = "main")
           \/ (workerPc = "swap" /\ s_mutex = "worker"))]_vars

C18_Witness ==
  /\ workerPc = "swap"
  /\ s_mutex = "worker"
  /\ mainPc = "lock2"
  /\ ~IsEmptyWord(s_word)

\* Sum of all counts of a word list.
RECURSIVE SumCounts(_)
SumCounts(m) ==
  IF DOMAIN m = {} THEN 0
  ELSE LET k == CHOOSE x \in DOMAIN m : TRUE
       IN  m[k] + SumCounts([y \in DOMAIN m \ {k} |-> m[y]])

\* 1 if P, else 0
One(P) == IF P THEN 1 ELSE 0

\* an ordinary word: neither the empty Word nor "end"
IsWord(s) == ~IsEmptyWord(s) /\ ~IsEnd(s)

\* The worker holds an extracted word it has not yet counted.
WorkerHoldsUncounted ==
  /\ workerPc \in AfterSwap \cup {"strcmp", "index", "incr"}
  /\ IsWord(w)

\* C19: the counts in s_wordsMap, plus the word the worker has extracted
\* but not yet counted, plus the word still in the slot, add up to the
\* number of words (tokens other than "end") stored so far.
C19_TokenConservation ==
  SumCounts(s_wordsMap) + One(WorkerHoldsUncounted) + One(IsWord(s_word))
    = Cardinality({i \in 1..Len(puts) : puts[i] # Sentinel})

C19_Witness ==
  /\ SumCounts(s_wordsMap) = 3
  /\ WorkerHoldsUncounted
  /\ workerPc = "incr"
  /\ Len(puts) = 4

\* C20: when scanf reports end of input before "end" has been read,
\* read_input_words returns without having joined the worker, the
\* destruction of the joinable std::thread terminates the process, and
\* neither the word list printing nor lookup_words is reached.
C20_EofTerminatesProcess ==
  /\ [](~HasEnd(input) =>
          (mainPc \notin AfterIngestion /\ ~joined /\ lookupLog = <<>>))
  /\ [](mainPc \in {"return_eof", "terminated"} =>
          (/\ ~HasEnd(input) /\ inPos = Len(input)
           /\ ~joined /\ workerPc # "done"))
  /\ [][((mainPc = "return_eof" /\ mainPc' # mainPc) =>
           mainPc' = "terminated")]_vars
  /\ [][(mainPc = "terminated" => UNCHANGED vars)]_vars

C20_Witness ==
  /\ mainPc = "terminated"
  /\ input = <<"x", "y">>
  /\ workerPc \notin {"done", "not_started"}

====
